---- MODULE Spec2Model ----
(***************************************************************************)
(* A model of the neighbor pipeline of code/metrics/neighbor.py: the       *)
(* script loads a snapshot of records, backfills coordinates from the      *)
(* gazetteer, builds the text, temporal and spatial similarity matrices,   *)
(* rescales the last two, fuses the three and exports, per record, the     *)
(* top-k entries of its row.                                               *)
(*                                                                         *)
(* Numbers.  Similarities are fixed-point integers in units of 1/SCALE     *)
(* (1000 stands for 1.0).  Fused scores are in units of 1/(10*SCALE), the  *)
(* weights being kept in tenths.  Years are integers; a date is kept as    *)
(* its year, the only part of it the script reads.  Coordinates are whole  *)
(* degrees.  NaN stands for pandas' missing value (NaN, NaT, None).        *)
(*                                                                         *)
(* Text.  A text field is a sequence of lower-case words.  The modelled    *)
(* records carry their words in title; concepts and description are empty.*)
(***************************************************************************)
EXTENDS Integers, Sequences, FiniteSets

VARIABLES
    snapshot,   \* the records of europeana_metadata.json, in file order
    pc,         \* the stage of the script that has completed
    df,         \* the record table
    S_text,     \* cosine similarity of the TF-IDF vectors
    S_date,     \* temporal similarity
    S_place,    \* spatial similarity
    G,          \* the fused matrix
    k,          \* the top-k count in use
    neighbors,  \* record index -> its list of neighbor entries
    exported    \* the content of europeana_neighbors.json

vars == <<snapshot, pc, df, S_text, S_date, S_place, G, k, neighbors, exported>>

----------------------------------------------------------------------------
(* Bounds of the model *)

\* the largest corpus explored
MaxN == 3
\* a small top-k count, so that a corpus of MaxN records has more than k
\* other records; the script's own count, top_k, is explored as well
SmallK == 1

----------------------------------------------------------------------------
(* Numbers *)

NaN == -1000000
SCALE == 1000

isna(x) == x = NaN
notna(x) == x # NaN

Abs(x) == IF x < 0 THEN -x ELSE x

RECURSIVE ISqrt(_)
\* floor of the square root
ISqrt(x) ==
    IF x < 2 THEN x
    ELSE LET s == 2 * ISqrt(x \div 4)
         IN  IF (s + 1) * (s + 1) <= x THEN s + 1 ELSE s

\* 10^4 * e^(-n), n = 0..9
ExpInt == <<10000, 3679, 1353, 498, 183, 67, 25, 9, 3, 1>>
\* 10^4 * e^(-m/20), m = 0..19
ExpFrac == <<10000, 9512, 9048, 8607, 8187, 7788, 7408, 7047, 6703, 6376,
             6065, 5769, 5488, 5220, 4966, 4724, 4493, 4274, 4066, 3867>>

\* SCALE * exp(-distance / width), the exponent rounded to twentieths
ExpKernel(distance, width) ==
    LET q == (20 * distance + width \div 2) \div width
        n == q \div 20
        m == q % 20
    IN  IF n >= Len(ExpInt) THEN 0
        ELSE (ExpInt[n + 1] * ExpFrac[m + 1] + 50000) \div 100000

\* 10 * ln(x), x = 1..7
Ln10 == <<0, 7, 11, 14, 16, 18, 19>>

RECURSIVE SetMin(_)
SetMin(S) ==
    LET x == CHOOSE y \in S : TRUE
    IN  IF S = {x} THEN x
        ELSE LET r == SetMin(S \ {x}) IN IF x < r THEN x ELSE r

RECURSIVE SetMax(_)
SetMax(S) ==
    LET x == CHOOSE y \in S : TRUE
    IN  IF S = {x} THEN x
        ELSE LET r == SetMax(S \ {x}) IN IF x > r THEN x ELSE r

----------------------------------------------------------------------------
(* Inputs *)

Rec(title, year, date_begin, date_end, place_label, place_lat, place_lon) ==
    [title |-> title, year |-> year, date_begin |-> date_begin,
     date_end |-> date_end, place_label |-> place_label,
     place_lat |-> place_lat, place_lon |-> place_lon]

\* static/data/gazetteer.json: the entry of lima has no place_lon key
gazetteer ==
    [paris |-> [place_lat |-> 2, place_lon |-> 3],
     oslo  |-> [place_lat |-> 0, place_lon |-> 0],
     lima  |-> [place_lat |-> 0]]

\* dict.get: the value of the key, None when the key is missing
Get(entry, key) == IF key \in DOMAIN entry THEN entry[key] ELSE NaN

\* The records a snapshot is drawn from, after the field normalisation of
\* the loader.  They cover: every branch of get_temporal_range, ranges that
\* overlap, touch and lie apart, a date_begin later than date_end; both,
\* one and no coordinate, with and without a gazetteer entry; texts that
\* are empty, only a stop word, shared and unique.
Pool ==
    { Rec(<<"map">>,   NaN,  NaN,  NaN,  "",         NaN, NaN),
      Rec(<<"map">>,   1900, NaN,  NaN,  "",         NaN, NaN),
      Rec(<<"map">>,   1925, 1900, 1950, "paris",    NaN, NaN),
      Rec(<<"atlas">>, NaN,  1900, 1950, "paris",    0,   NaN),
      Rec(<<"atlas">>, NaN,  1950, 1900, "oslo",     2,   3),
      Rec(<<"the">>,   NaN,  NaN,  1950, "lima",     NaN, 3),
      Rec(<<>>,        NaN,  1925, NaN,  "",         0,   0),
      Rec(<<>>,        NaN,  NaN,  NaN,  "",         NaN, 0),
      Rec(<<"the">>,   1950, NaN,  NaN,  "atlantis", 2,   NaN),
      Rec(<<"globe">>, 1925, NaN,  NaN,  "",         0,   3) }

Snapshots == UNION { [1..n -> Pool] : n \in 0..MaxN }

----------------------------------------------------------------------------
(* Configuration of the script *)

\* temporal bandwidth, in years
bandwidth == 25
\* spatial bandwidth, in kilometres
sigma == 400
\* the fusion weights, in tenths
alpha == 5
beta == 2
gamma == 2
delta == 1
\* the number of neighbors kept per record
top_k == 50
\* minimum document frequency of the first fit and of the fallback
min_df == 2
fallback_min_df == 1
\* the self entry of a row during ranking: -1, in units of 1/(10*SCALE)
SelfScore == -1 * 10 * SCALE

KChoices == {SmallK, top_k}

----------------------------------------------------------------------------
(* Loader: gazetteer backfill *)

BackfillRow(row) ==
    IF notna(row.place_lat) /\ notna(row.place_lon)
    THEN row
    ELSE IF row.place_label # "" /\ row.place_label \in DOMAIN gazetteer
         THEN LET gaz_entry == gazetteer[row.place_label]
              IN  [row EXCEPT !.place_lat = Get(gaz_entry, "place_lat"),
                              !.place_lon = Get(gaz_entry, "place_lon")]
         ELSE row

BackfillTable(d) == [i \in DOMAIN d |-> BackfillRow(d[i])]

----------------------------------------------------------------------------
(* Text kernel: TfidfVectorizer and cosine_similarity *)

StopWords == {"the"}

\* df['text']: title, concepts, description and place_label joined
Text(row) ==
    row.title \o (IF row.place_label = "" THEN <<>> ELSE <<row.place_label>>)

Tokens(row) == SelectSeq(Text(row), LAMBDA w : w \notin StopWords)

TF(t, row) == Len(SelectSeq(Tokens(row), LAMBDA w : w = t))

DocFreq(t, d) == Cardinality({i \in DOMAIN d : TF(t, d[i]) > 0})

AllTerms(d) == UNION { {Tokens(d[i])[p] : p \in DOMAIN Tokens(d[i])} : i \in DOMAIN d }

Vocabulary(d, mindf) == {t \in AllTerms(d) : DocFreq(t, d) >= mindf}

\* fit_transform raises ValueError: no term at all, fewer documents than
\* the minimum document frequency, or no term left after pruning
FitFails(d, mindf) ==
    \/ AllTerms(d) = {}
    \/ Len(d) < mindf
    \/ Vocabulary(d, mindf) = {}

\* smoothed inverse document frequency, in tenths: ln((1+n)/(1+df)) + 1
Idf(t, d) == 10 + Ln10[1 + Len(d)] - Ln10[1 + DocFreq(t, d)]

Weight(t, row, d) == TF(t, row) * Idf(t, d)

RECURSIVE Dot(_, _, _, _)
Dot(V, a, b, d) ==
    IF V = {} THEN 0
    ELSE LET t == CHOOSE x \in V : TRUE
         IN  Weight(t, a, d) * Weight(t, b, d) + Dot(V \ {t}, a, b, d)

Cosine(V, a, b, d) ==
    LET na == Dot(V, a, a, d)
        nb == Dot(V, b, b, d)
    IN  IF na = 0 \/ nb = 0 THEN 0
        ELSE (Dot(V, a, b, d) * SCALE) \div ISqrt(na * nb)

TextMatrix(d, mindf) ==
    LET V == Vocabulary(d, mindf)
    IN  [i \in DOMAIN d |-> [j \in DOMAIN d |-> Cosine(V, d[i], d[j], d)]]

----------------------------------------------------------------------------
(* Temporal kernel *)

get_temporal_range(row) ==
    IF notna(row.year) THEN <<row.year, row.year>>
    ELSE IF notna(row.date_begin) /\ notna(row.date_end)
         THEN <<row.date_begin, row.date_end>>
    ELSE IF notna(row.date_begin) THEN <<row.date_begin, row.date_begin>>
    ELSE IF notna(row.date_end) THEN <<row.date_end, row.date_end>>
    ELSE <<NaN, NaN>>

calculate_temporal_distance(t_min_i, t_max_i, t_min_j, t_max_j) ==
    IF t_max_i < t_min_j THEN t_min_j - t_max_i
    ELSE IF t_max_j < t_min_i THEN t_min_i - t_max_j
    ELSE 0

\* the value the fill loop leaves at [a][b]: the loop visits the pair once,
\* with the lower index as i, and writes the result to both places
DateEntry(d, a, b) ==
    LET i == IF a <= b THEN a ELSE b
        j == IF a <= b THEN b ELSE a
        ri == get_temporal_range(d[i])
        rj == get_temporal_range(d[j])
    IN  IF isna(ri[1]) \/ isna(rj[1]) THEN 0
        ELSE ExpKernel(calculate_temporal_distance(ri[1], ri[2], rj[1], rj[2]),
                       bandwidth)

DateMatrix(d) == [a \in DOMAIN d |-> [b \in DOMAIN d |-> DateEntry(d, a, b)]]

----------------------------------------------------------------------------
(* Spatial kernel *)

\* R * c of the haversine formula, rounded to kilometres, on the grid of
\* the modelled coordinates (latitudes 0 and 2, longitudes 0 and 3)
haversine(lat1, lon1, lat2, lon2) ==
    LET dlat == Abs(lat2 - lat1)
        dlon == Abs(lon2 - lon1)
    IN  CASE dlat = 0 /\ dlon = 0 -> 0
          [] dlat = 2 /\ dlon = 0 -> 222
          [] dlat = 0 /\ dlon = 3 /\ lat1 = 0 -> 334
          [] dlat = 0 /\ dlon = 3 /\ lat1 = 2 -> 333
          [] dlat = 2 /\ dlon = 3 -> 401

PlaceEntry(d, a, b) ==
    LET i == IF a <= b THEN a ELSE b
        j == IF a <= b THEN b ELSE a
    IN  IF isna(d[i].place_lat) \/ isna(d[i].place_lon) THEN 0
        ELSE IF isna(d[j].place_lat) \/ isna(d[j].place_lon) THEN 0
        ELSE ExpKernel(haversine(d[i].place_lat, d[i].place_lon,
                                 d[j].place_lat, d[j].place_lon), sigma)

PlaceMatrix(d) == [a \in DOMAIN d |-> [b \in DOMAIN d |-> PlaceEntry(d, a, b)]]

----------------------------------------------------------------------------
(* Normalizer: MinMaxScaler().fit_transform, one feature per column *)

Column(M, j) == {M[r][j] : r \in DOMAIN M}

\* a scaler that maps a constant column to the top of the range
ScaleEntryConstantToOne(M, i, j) ==
    LET data_min == SetMin(Column(M, j))
        data_range == SetMax(Column(M, j)) - data_min
    IN  IF data_range = 0 THEN SCALE
        ELSE ((M[i][j] - data_min) * SCALE) \div data_range

ScaleEntry(M, i, j) ==
    LET data_min == SetMin(Column(M, j))
        data_range == SetMax(Column(M, j)) - data_min
    IN  IF data_range = 0 THEN M[i][j] - data_min
        ELSE ((M[i][j] - data_min) * SCALE) \div data_range

fit_transform(M) == [i \in DOMAIN M |-> [j \in DOMAIN M |-> ScaleEntry(M, i, j)]]

----------------------------------------------------------------------------
(* Fusion and ranking *)

Fuse(St, Sd, Sp) ==
    [i \in DOMAIN St |-> [j \in DOMAIN St |->
        alpha * St[i][j] + beta * Sd[i][j] + gamma * Sp[i][j] + delta * 0]]

Scores(Gm, i) == [Gm[i] EXCEPT ![i] = SelfScore]

\* the orders in which a sort may leave equal scores
Perms(n) == {p \in [1..n -> 1..n] : \A x, y \in 1..n : p[x] = p[y] => x = y}

\* np.argsort: the indices in ascending order of score, equal scores in the
\* order prio gives them
argsort(scores, prio) ==
    LET Before(x, y) == \/ scores[x] < scores[y]
                        \/ scores[x] = scores[y] /\ prio[x] < prio[y]
        Pos(y) == 1 + Cardinality({x \in DOMAIN scores : Before(x, y)})
    IN  [p \in DOMAIN scores |-> CHOOSE y \in DOMAIN scores : Pos(y) = p]

\* a selection that takes the head of the ascending order: argsort(scores)[:kk]
TopIdxHead(scores, kk, prio) ==
    LET a == argsort(scores, prio)
        n == Len(a)
        m == IF kk < n THEN kk ELSE n
    IN  [p \in 1..m |-> a[p]]

\* np.argsort(scores)[-kk:][::-1]
TopIdx(scores, kk, prio) ==
    LET a == argsort(scores, prio)
        n == Len(a)
        m == IF kk < n THEN kk ELSE n
    IN  [p \in 1..m |-> a[n - p + 1]]

Item(d, St, Sd, Sp, scores, i, j) ==
    [id |-> j, score |-> scores[j], S_text |-> St[i][j],
     S_date |-> Sd[i][j], S_place |-> Sp[i][j], title |-> d[j].title]

Items(d, St, Sd, Sp, Gm, kk, prio, i) ==
    LET scores == Scores(Gm, i)
        top_idx == TopIdx(scores, kk, prio)
    IN  [p \in DOMAIN top_idx |-> Item(d, St, Sd, Sp, scores, i, top_idx[p])]

----------------------------------------------------------------------------
(* The script, stage by stage *)

Init ==
    /\ snapshot \in Snapshots
    /\ pc = "loaded"
    /\ df = snapshot
    /\ S_text = <<>>
    /\ S_date = <<>>
    /\ S_place = <<>>
    /\ G = <<>>
    /\ k = top_k
    /\ neighbors = <<>>
    /\ exported = <<>>

\* lines 69-81: the column accesses raise KeyError on a table without
\* columns, which is what read_json gives for an empty collection
Preprocess ==
    /\ pc = "loaded"
    /\ pc' = IF Len(df) = 0 THEN "raised" ELSE "preprocessed"
    /\ UNCHANGED <<snapshot, df, S_text, S_date, S_place, G, k, neighbors, exported>>

Backfill ==
    /\ pc = "preprocessed"
    /\ df' = BackfillTable(df)
    /\ pc' = "backfilled"
    /\ UNCHANGED <<snapshot, S_text, S_date, S_place, G, k, neighbors, exported>>

BuildText ==
    /\ pc = "backfilled"
    /\ IF ~FitFails(df, min_df)
       THEN /\ S_text' = TextMatrix(df, min_df)
            /\ pc' = "text"
       ELSE IF ~FitFails(df, fallback_min_df)
            THEN /\ S_text' = TextMatrix(df, fallback_min_df)
                 /\ pc' = "text"
            ELSE /\ S_text' = S_text
                 /\ pc' = "raised"
    /\ UNCHANGED <<snapshot, df, S_date, S_place, G, k, neighbors, exported>>

BuildDate ==
    /\ pc = "text"
    /\ S_date' = DateMatrix(df)
    /\ pc' = "date"
    /\ UNCHANGED <<snapshot, df, S_text, S_place, G, k, neighbors, exported>>

BuildPlace ==
    /\ pc = "date"
    /\ S_place' = PlaceMatrix(df)
    /\ pc' = "place"
    /\ UNCHANGED <<snapshot, df, S_text, S_date, G, k, neighbors, exported>>

Normalize ==
    /\ pc = "place"
    /\ IF Len(df) > 1
       THEN /\ S_date' = fit_transform(S_date)
            /\ S_place' = fit_transform(S_place)
       ELSE UNCHANGED <<S_date, S_place>>
    /\ pc' = "normalized"
    /\ UNCHANGED <<snapshot, df, S_text, G, k, neighbors, exported>>

FuseScores ==
    /\ pc = "normalized"
    /\ G' = Fuse(S_text, S_date, S_place)
    /\ pc' = "fused"
    /\ UNCHANGED <<snapshot, df, S_text, S_date, S_place, k, neighbors, exported>>

\* the whole loop over the records; kk is the configured count, prio the
\* order the sort leaves equal scores in
Rank ==
    /\ pc = "fused"
    /\ \E kk \in KChoices, prio \in Perms(Len(df)) :
          /\ k' = kk
          /\ neighbors' = [i \in DOMAIN df |->
                              Items(df, S_text, S_date, S_place, G, kk, prio, i)]
    /\ pc' = "ranked"
    /\ UNCHANGED <<snapshot, df, S_text, S_date, S_place, G, exported>>

Export ==
    /\ pc = "ranked"
    /\ exported' = neighbors
    /\ pc' = "exported"
    /\ UNCHANGED <<snapshot, df, S_text, S_date, S_place, G, k, neighbors>>

Next ==
    \/ Preprocess
    \/ Backfill
    \/ BuildText
    \/ BuildDate
    \/ BuildPlace
    \/ Normalize
    \/ FuseScores
    \/ Rank
    \/ Export

Spec == Init /\ [][Next]_vars

\* the snapshots in which no record has a date_begin later than its date_end
InitOrdered ==
    /\ Init
    /\ \A i \in DOMAIN snapshot :
          notna(snapshot[i].date_begin) /\ notna(snapshot[i].date_end)
              => snapshot[i].date_begin <= snapshot[i].date_end

SpecOrdered == InitOrdered /\ [][Next]_vars

----------------------------------------------------------------------------
(* Properties *)

N == Len(df)

TextStages == {"text", "date", "place", "normalized", "fused", "ranked", "exported"}
DateStages == {"date", "place", "normalized", "fused", "ranked", "exported"}
PlaceStages == {"place", "normalized", "fused", "ranked", "exported"}

Symmetric(M) == \A i, j \in DOMAIN M : M[i][j] = M[j][i]

NoRange(row) == isna(get_temporal_range(row)[1])
NoCoords(row) == isna(row.place_lat) \/ isna(row.place_lon)

Cells(M) == {M[i][j] : i, j \in DOMAIN M}

\* C1: in the exported file, written with the script's top_k, no record's
\* neighbor list holds an entry whose id is the record's own id.
C1_SelfExclusion ==
    pc = "exported" /\ k = top_k =>
        \A i \in DOMAIN exported : \A p \in DOMAIN exported[i] :
            exported[i][p].id # i

\* C2: in the exported file, written with the script's top_k, every list has
\* at most top_k entries, and at most N-1 entries when N-1 < top_k; the list
\* of the only record of a one-record corpus is empty.
C2_ListLength ==
    pc = "exported" /\ k = top_k =>
        \A i \in DOMAIN exported :
            /\ Len(exported[i]) <= top_k
            /\ N - 1 < top_k => Len(exported[i]) <= N - 1

\* C3: every exported entry's score is the weighted sum of the three channel
\* values of that same entry, and no exported entry carries the -1 sentinel.
C3_ScoreIsWeightedSum ==
    pc = "exported" /\ k = top_k =>
        \A i \in DOMAIN exported : \A p \in DOMAIN exported[i] :
            LET e == exported[i][p]
            IN  /\ e.score = alpha * e.S_text + beta * e.S_date + gamma * e.S_place
                /\ e.score # SelfScore

\* C4: each of S_text, S_date and S_place is symmetric in every state from
\* the end of its computation through normalisation, fusion and export.
C4_Symmetry ==
    /\ pc \in TextStages => Symmetric(S_text)
    /\ pc \in DateStages => Symmetric(S_date)
    /\ pc \in PlaceStages => Symmetric(S_place)

\* C5: after the gazetteer backfill every coordinate that was present in the
\* snapshot still has the value it had there.
C5_BackfillKeepsCoordinates ==
    pc = "backfilled" =>
        \A i \in DOMAIN df :
            /\ notna(snapshot[i].place_lat) => df[i].place_lat = snapshot[i].place_lat
            /\ notna(snapshot[i].place_lon) => df[i].place_lon = snapshot[i].place_lon

\* C6: a record without a temporal range has 0 in its whole row and column
\* of S_date, and a record lacking a coordinate has 0 in its whole row and
\* column of S_place, before and after normalisation; the exported entries
\* of such pairs carry 0 for that channel.
C6_ZeroForMissingData ==
    /\ pc \in DateStages =>
          \A i, j \in DOMAIN df :
              NoRange(df[i]) => S_date[i][j] = 0 /\ S_date[j][i] = 0
    /\ pc \in PlaceStages =>
          \A i, j \in DOMAIN df :
              NoCoords(df[i]) => S_place[i][j] = 0 /\ S_place[j][i] = 0
    /\ pc = "exported" =>
          \A i \in DOMAIN exported : \A p \in DOMAIN exported[i] :
              LET e == exported[i][p]
              IN  /\ NoRange(df[i]) \/ NoRange(df[e.id]) => e.S_date = 0
                  /\ NoCoords(df[i]) \/ NoCoords(df[e.id]) => e.S_place = 0

\* C6, its case: the matrices have been rescaled, a record without a range
\* stands beside one with a range, and a record lacking a coordinate beside
\* one with both, whose cells are above 0.
C6_Witness ==
    /\ pc = "normalized"
    /\ \E i, j \in DOMAIN df :
          NoRange(df[i]) /\ ~NoRange(df[j]) /\ S_date[j][j] > 0
    /\ \E i, j \in DOMAIN df :
          NoCoords(df[i]) /\ ~NoCoords(df[j]) /\ S_place[j][j] > 0

\* C7: the run never raises: every snapshot reaches the export step.
C7_NeverRaises == pc # "raised"

\* one corpus-wide min-max mapping of raw onto scaled: the cells holding the
\* least raw value hold 0, the cells holding the greatest hold SCALE, and a
\* cell with a smaller raw value never has a greater scaled value
CorpusWideMinMax(raw, scaled) ==
    SetMin(Cells(raw)) < SetMax(Cells(raw)) =>
        /\ \A i, j \in DOMAIN raw :
              /\ raw[i][j] = SetMin(Cells(raw)) => scaled[i][j] = 0
              /\ raw[i][j] = SetMax(Cells(raw)) => scaled[i][j] = SCALE
        /\ \A a, b, c, d \in DOMAIN raw :
              raw[a][b] < raw[c][d] => scaled[a][b] <= scaled[c][d]

\* C8: when N > 1, S_date and S_place are each the image of the kernel's
\* matrix under one corpus-wide min-max mapping.
C8_CorpusWideScaling ==
    pc = "normalized" /\ N > 1 =>
        /\ CorpusWideMinMax(DateMatrix(df), S_date)
        /\ CorpusWideMinMax(PlaceMatrix(df), S_place)

\* the years between the two edges of a range, whichever edge is the later
Lo(r) == IF r[1] <= r[2] THEN r[1] ELSE r[2]
Hi(r) == IF r[1] <= r[2] THEN r[2] ELSE r[1]
\* the gap between two ranges: 0 when they overlap or touch
Gap(r, s) ==
    IF Hi(r) < Lo(s) THEN Lo(s) - Hi(r)
    ELSE IF Hi(s) < Lo(r) THEN Lo(r) - Hi(s)
    ELSE 0

Distance(r, s) == calculate_temporal_distance(r[1], r[2], s[1], s[2])

\* C9: for every two records with a temporal range, the distance the kernel
\* uses is never negative, is the same whichever record is taken first, and
\* is the gap between the two ranges (0 when they overlap or touch).
C9_TemporalDistance ==
    pc = "date" =>
        \A i, j \in DOMAIN df :
            ~NoRange(df[i]) /\ ~NoRange(df[j]) =>
                LET r == get_temporal_range(df[i])
                    s == get_temporal_range(df[j])
                IN  /\ Distance(r, s) >= 0
                    /\ Distance(r, s) = Distance(s, r)
                    /\ Distance(r, s) = Gap(r, s)

Listed(i) == {exported[i][p].id : p \in DOMAIN exported[i]}

\* C10: every exported list is in non-increasing order of score, and every
\* other record that is not in the list has a fused score with the list's
\* record that is at most the score of every entry of the list.
C10_TopKRanking ==
    pc = "exported" =>
        \A i \in DOMAIN exported :
            /\ \A p, q \in DOMAIN exported[i] :
                  p < q => exported[i][p].score >= exported[i][q].score
            /\ \A j \in DOMAIN df \ (Listed(i) \cup {i}) :
                  \A p \in DOMAIN exported[i] : G[i][j] <= exported[i][p].score

\* C10, its case: a list was cut to k entries, leaving out another record
\* whose fused score is strictly below the score of the list's first entry.
C10_Witness ==
    /\ pc = "exported"
    /\ \E i \in DOMAIN exported :
          \E j \in DOMAIN df \ (Listed(i) \cup {i}) :
              /\ Len(exported[i]) = k
              /\ G[i][j] < exported[i][1].score

====
